---- MODULE Spec2Model ----
(***************************************************************************)
(* Model of src/main.py: the POST /order handler create_order and the      *)
(* helpers it calls (ensure_chrome_running, is_chrome_running,             *)
(* find_add_to_cart_button, handle_popups, open_cart) plus the function    *)
(* enter_upi_and_pay.                                                      *)
(*                                                                         *)
(* create_order is a coroutine on a single asyncio event loop.  Code       *)
(* between two awaits that suspend runs without interruption; the          *)
(* variable `running` names the request that holds the event loop in such  *)
(* a section (time.sleep and subprocess.run block the loop, and            *)
(* ensure_chrome_running contains no suspending await).  Every Playwright  *)
(* await suspends, so another request may run between two page             *)
(* operations of one request.                                              *)
(*                                                                         *)
(* Outcomes of the browser, of the web site and of the operating system    *)
(* are environment choices (\E).  page.wait_for_selector with the default  *)
(* state either returns an element or raises; the `if x:` tests on its     *)
(* result are kept in the actions, the result None is never drawn.         *)
(***************************************************************************)
EXTENDS Integers, Sequences, FiniteSets, TLC

\* ---------------------------------------------------------------- bounds
MaxProducts == 2      \* longest product list of a request
NumRequests == 2      \* POST /order requests that may be in flight
MaxUpi == 3           \* distinct UPI identifiers offered to enter_upi_and_pay

\* ------------------------------------------------------ program constants
max_retries == 3            \* create_order, ensure loop
chrome_max_retries == 10    \* ensure_chrome_running, poll loop
max_connect_retries == 3    \* create_order, connect loop
NumAddSelectors == 2        \* find_add_to_cart_button: len(selectors)
NumVerifySelectors == 4     \* enter_upi_and_pay: len(verify_button_selectors)

Requests == 1..NumRequests
ProductNames == {"a", "b"}
ProductLists == UNION {[1..n -> ProductNames] : n \in 0..MaxProducts}
Systems == {"Darwin", "Windows", "Linux", "Other"}
WaitOutcomes == {"found", "timeout"}
UpiIds == 1..MaxUpi

VARIABLES
  req,       \* per request: the frame of create_order (and of the helper it is in)
  running,   \* request holding the event loop in a non-suspending section, 0 if none
  serverUp,  \* FALSE once sys.exit() has taken the server process down
  system,    \* platform.system()
  tabOpen,   \* contexts[0].pages is non-empty
  pages,     \* per page: its url and the request that touched it last
  pay,       \* frame of one call of enter_upi_and_pay
  field      \* value of the input[testid="edt_vpa"] element

vars == <<req, running, serverUp, system, tabOpen, pages, pay, field>>

\* ------------------------------------------------------------ exceptions
NoExc == [kind |-> "none", status |-> 0, detail |-> <<>>]
Err(msg) == [kind |-> "error", status |-> 0, detail |-> <<msg>>]
HTTPException(code, d) == [kind |-> "http", status |-> code, detail |-> d]

StatusStr(n) ==
  CASE n = 400 -> "400" [] n = 404 -> "404" [] n = 500 -> "500" [] OTHER -> "0"

\* str(e): HTTPException prints as "<status_code>: <detail>", others as their message
StrOf(e) == IF e.kind = "http" THEN <<StatusStr(e.status), ": ">> \o e.detail
            ELSE e.detail

\* ----------------------------------------------------------------- pages
Url(path, query, cart) == [path |-> path, query |-> query, cart |-> cart]
SearchUrl(product) == Url("search", product, FALSE)
\* open_cart: parse_qs of the current query, params['cart'] = ['open'], same path
CartUrl(u) == Url(u.path, u.query, TRUE)
SharedPage == 0
Touch(pg, r) == [pages EXCEPT ![pg].by = r]
Navigate(pg, r, u) == [pages EXCEPT ![pg] = [url |-> u, by |-> r]]

\* ------------------------------------------------------------- the frame
\* Locals of create_order: products, attempt, connectAttempt, browser, page, idx,
\* successful_products, failed_products, exc (the exception in flight).
\* Locals of ensure_chrome_running while it is called: i, ensureRet (its return
\* value), caller (the call site, line 248 or 279), and per call polls (calls of
\* is_chrome_running after the launch), launches, kills, alreadyRunning (result
\* of the check of line 143).
\* Locals of find_add_to_cart_button: sel.
\* History of the request: ensureCalls (calls of ensure_chrome_running by the
\* loop the request is in; cleared when that loop is left), everUp (some
\* is_chrome_running returned true), ensuredTrue (some ensure_chrome_running
\* returned true), connectTried, processed (loop iterations started), navigated,
\* added, paid (products whose goto / add-to-cart click / pay click succeeded),
\* cartOpened, failed (a statement raised), origin (the first exception raised),
\* outcome, status, detail (what the client gets).
NewRequest(prods) ==
  [ pc |-> "new", products |-> prods,
    attempt |-> 0, caller |-> "order", ensureRet |-> FALSE, i |-> 0,
    ensureCalls |-> 0, polls |-> 0, launches |-> 0, kills |-> 0,
    alreadyRunning |-> FALSE, everUp |-> FALSE, ensuredTrue |-> FALSE,
    connectAttempt |-> 0, connectTried |-> FALSE, browser |-> FALSE, page |-> -1,
    idx |-> 1, sel |-> 1, processed |-> 0,
    successful_products |-> <<>>, failed_products |-> <<>>,
    navigated |-> <<>>, added |-> <<>>, paid |-> <<>>, cartOpened |-> FALSE,
    exc |-> NoExc, failed |-> FALSE, origin |-> NoExc,
    outcome |-> "pending", status |-> 0, detail |-> <<>> ]

IdlePay == [pc |-> "idle", upi_id |-> 0, sel |-> 1, verify_button |-> FALSE,
            log |-> <<>>, exc |-> NoExc, ret |-> "none"]
\* the exception of a statement of enter_upi_and_pay goes to line 236
PayRaise(msg) == [pay EXCEPT !.pc = "pay_except", !.exc = Err(msg)]

\* a request that was never posted
Absent == [NewRequest(<<>>) EXCEPT !.pc = "absent"]

\* return from ensure_chrome_running: its locals go with its frame
PopEnsure(rec) ==
  [rec EXCEPT !.i = 0, !.polls = 0, !.launches = 0, !.kills = 0,
              !.alreadyRunning = FALSE, !.ensureRet = FALSE]

Put(r, rec) == req' = [req EXCEPT ![r] = rec]
CanRun(r) == serverUp /\ running \in {0, r}
Product(r) == req[r].products[req[r].idx]
\* the for statement of line 308: next product, or fall out of the loop
LoopPc(i, prods) == IF i <= Len(prods) THEN "goto" ELSE "popups4"

\* the state of the server process that both specifications start from
InitServer ==
  /\ running = 0
  /\ serverUp = TRUE
  /\ pages = [pg \in 0..NumRequests |->
                [url |-> IF pg = SharedPage THEN Url("home", "", FALSE)
                         ELSE Url("blank", "", FALSE),
                 by |-> 0]]

\* one POST /order request, on any platform
Init ==
  /\ \E p \in ProductLists :
       req = [r \in Requests |-> IF r = 1 THEN NewRequest(p) ELSE Absent]
  /\ system \in Systems
  /\ tabOpen \in BOOLEAN
  /\ InitServer
  /\ pay = IdlePay
  /\ field = 0

\* NumRequests POST /order requests in flight on a Linux host, each for at most
\* one product
InitConc ==
  /\ req \in [Requests -> {NewRequest(p) : p \in {q \in ProductLists : Len(q) <= 1}}]
  /\ system = "Linux"
  /\ tabOpen \in BOOLEAN
  /\ InitServer
  /\ pay = IdlePay
  /\ field = 0

\* one call enter_upi_and_pay(page, upi_id); the input element may hold an old value
InitPay ==
  /\ req = [r \in Requests |-> Absent]
  /\ system = "Linux"
  /\ tabOpen = TRUE
  /\ InitServer
  /\ \E u \in UpiIds : pay = [IdlePay EXCEPT !.pc = "wait_input", !.upi_id = u]
  /\ field \in {0} \cup UpiIds

\* ------------------------------------------------- raising and responding
\* an exception leaves the statement that raised it; origin keeps the first one
Raise(rec, e, handler) ==
  [rec EXCEPT !.exc = e, !.failed = TRUE, !.pc = handler,
              !.origin = IF @.kind = "none" THEN e ELSE @]

\* FastAPI turns an HTTPException that leaves the handler into the response
Respond(rec, e) ==
  [rec EXCEPT !.pc = "done", !.outcome = "http_error",
              !.status = e.status, !.detail = e.detail, !.exc = NoExc]

\* ------------------------------------------- create_order, lines 242-253
BeginOrder(r) ==
  /\ serverUp /\ running = 0
  /\ req[r].pc = "new"
  /\ Put(r, [req[r] EXCEPT !.pc = "ensure_call", !.attempt = 0, !.caller = "order"])
  /\ running' = r
  /\ UNCHANGED <<serverUp, system, tabOpen, pages, pay, field>>

\* ensure_chrome_running up to the Popen of line 168
EnsureStart(r) ==
  /\ CanRun(r)
  /\ req[r].pc = "ensure_call"
  /\ \E up \in BOOLEAN, popenOk \in BOOLEAN :
       LET c == [req[r] EXCEPT !.ensureCalls = @ + 1, !.polls = 0, !.launches = 0,
                               !.kills = 0, !.i = 0, !.alreadyRunning = up,
                               !.everUp = @ \/ up]
       IN  IF up
           THEN Put(r, [c EXCEPT !.pc = "ensure_ret", !.ensureRet = TRUE,
                                 !.ensuredTrue = TRUE])
           ELSE IF system = "Other"
           THEN Put(r, [c EXCEPT !.pc = "ensure_ret", !.ensureRet = FALSE])
           ELSE IF popenOk
           THEN Put(r, [c EXCEPT !.pc = "ensure_poll", !.kills = 1, !.launches = 1])
           ELSE Put(r, [c EXCEPT !.pc = "ensure_ret", !.kills = 1,
                                 !.ensureRet = FALSE])
  /\ running' = r
  /\ UNCHANGED <<serverUp, system, tabOpen, pages, pay, field>>

\* EnsurePoll with the loop bound off by one (range(max_retries + 1))
EnsurePollOffByOne(r) ==
  /\ CanRun(r)
  /\ req[r].pc = "ensure_poll"
  /\ req[r].i < chrome_max_retries + 1
  /\ \E up \in BOOLEAN :
       LET c == [req[r] EXCEPT !.i = @ + 1, !.polls = @ + 1, !.everUp = @ \/ up]
       IN  IF up
           THEN Put(r, [c EXCEPT !.pc = "ensure_ret", !.ensureRet = TRUE,
                                 !.ensuredTrue = TRUE])
           ELSE IF c.i = chrome_max_retries + 1
           THEN Put(r, [c EXCEPT !.pc = "ensure_ret", !.ensureRet = FALSE])
           ELSE Put(r, c)
  /\ running' = r
  /\ UNCHANGED <<serverUp, system, tabOpen, pages, pay, field>>

\* one iteration of the wait loop of ensure_chrome_running
EnsurePoll(r) ==
  /\ CanRun(r)
  /\ req[r].pc = "ensure_poll"
  /\ req[r].i < chrome_max_retries
  /\ \E up \in BOOLEAN :
       LET c == [req[r] EXCEPT !.i = @ + 1, !.polls = @ + 1, !.everUp = @ \/ up]
       IN  IF up
           THEN Put(r, [c EXCEPT !.pc = "ensure_ret", !.ensureRet = TRUE,
                                 !.ensuredTrue = TRUE])
           ELSE IF c.i = chrome_max_retries
           THEN Put(r, [c EXCEPT !.pc = "ensure_ret", !.ensureRet = FALSE])
           ELSE Put(r, c)
  /\ running' = r
  /\ UNCHANGED <<serverUp, system, tabOpen, pages, pay, field>>

\* OrderRetry without the raise of line 252: the loop just ends
OrderRetryFallThrough(r) ==
  /\ CanRun(r)
  /\ req[r].pc = "ensure_ret" /\ req[r].caller = "order"
  /\ IF req[r].ensureRet \/ req[r].attempt = max_retries - 1
     THEN /\ Put(r, [PopEnsure(req[r]) EXCEPT !.pc = "playwright", !.attempt = 0,
                                             !.ensureCalls = 0])
          /\ running' = 0
     ELSE /\ Put(r, [PopEnsure(req[r]) EXCEPT !.pc = "ensure_call", !.attempt = @ + 1])
          /\ running' = r
  /\ UNCHANGED <<serverUp, system, tabOpen, pages, pay, field>>

\* the retry loop around ensure_chrome_running
OrderRetry(r) ==
  /\ CanRun(r)
  /\ req[r].pc = "ensure_ret" /\ req[r].caller = "order"
  /\ IF req[r].ensureRet
     THEN /\ Put(r, [PopEnsure(req[r]) EXCEPT !.pc = "playwright", !.attempt = 0,
                                             !.ensureCalls = 0])
          /\ running' = 0
     ELSE IF req[r].attempt = max_retries - 1
     THEN LET e == HTTPException(500, <<"Could not ensure Chrome is running">>)
          IN  /\ Put(r, Respond(Raise(PopEnsure(req[r]), e, "done"), e))
              /\ running' = 0
     ELSE /\ Put(r, [PopEnsure(req[r]) EXCEPT !.pc = "ensure_call", !.attempt = @ + 1])
          /\ running' = r
  /\ UNCHANGED <<serverUp, system, tabOpen, pages, pay, field>>

\* ------------------------------------------- create_order, lines 255-302
StartPlaywright(r) ==
  /\ CanRun(r)
  /\ req[r].pc = "playwright"
  /\ \E ok \in BOOLEAN :
       IF ok THEN Put(r, [req[r] EXCEPT !.pc = "connect", !.connectAttempt = 0])
       ELSE Put(r, Raise(req[r], Err("playwright failed to start"), "outer_except"))
  /\ running' = 0
  /\ UNCHANGED <<serverUp, system, tabOpen, pages, pay, field>>

\* one attempt of the connect loop
Connect(r) ==
  /\ CanRun(r)
  /\ req[r].pc = "connect"
  /\ \E ok \in BOOLEAN :
       LET c == [req[r] EXCEPT !.connectTried = TRUE]
       IN  IF ok
           THEN /\ Put(r, [c EXCEPT !.pc = "get_page", !.browser = TRUE,
                                    !.connectAttempt = 0])
                /\ running' = r
           ELSE IF c.connectAttempt < max_connect_retries - 1
           THEN /\ Put(r, [c EXCEPT !.pc = "ensure_call", !.caller = "connect"])
                /\ running' = r
           ELSE /\ Put(r, Raise(c, HTTPException(500,
                            <<"Failed to connect to Chrome after ", "3", " attempts">>),
                          "outer_except"))
                /\ running' = 0
  /\ UNCHANGED <<serverUp, system, tabOpen, pages, pay, field>>

\* line 279-280: the result of ensure_chrome_running is dropped, next attempt
ConnectResume(r) ==
  /\ CanRun(r)
  /\ req[r].pc = "ensure_ret" /\ req[r].caller = "connect"
  /\ Put(r, [PopEnsure(req[r]) EXCEPT !.pc = "connect", !.connectAttempt = @ + 1,
                                       !.caller = "order", !.ensureCalls = 0])
  /\ running' = 0
  /\ UNCHANGED <<serverUp, system, tabOpen, pages, pay, field>>

\* pick the page: a new one if there is no context, else pages[0] of contexts[0]
GetPage(r) ==
  /\ CanRun(r)
  /\ req[r].pc = "get_page"
  /\ \E contexts \in BOOLEAN, ok \in BOOLEAN :
       LET next == LoopPc(1, req[r].products)
       IN  IF ~req[r].browser
           THEN /\ Put(r, Raise(req[r], HTTPException(500,
                            <<"Failed to connect to browser">>), "outer_except"))
                /\ UNCHANGED <<tabOpen, pages>>
           ELSE IF contexts /\ tabOpen
           THEN /\ Put(r, [req[r] EXCEPT !.pc = next, !.page = SharedPage, !.idx = 1])
                /\ UNCHANGED <<tabOpen, pages>>
           ELSE IF ~ok
           THEN /\ Put(r, Raise(req[r], Err("new_page failed"), "outer_except"))
                /\ UNCHANGED <<tabOpen, pages>>
           ELSE IF contexts
           THEN /\ Put(r, [req[r] EXCEPT !.pc = next, !.page = SharedPage, !.idx = 1])
                /\ tabOpen' = TRUE
                /\ pages' = Navigate(SharedPage, 0, Url("blank", "", FALSE))
           ELSE /\ Put(r, [req[r] EXCEPT !.pc = next, !.page = r, !.idx = 1])
                /\ pages' = Navigate(r, 0, Url("blank", "", FALSE))
                /\ UNCHANGED tabOpen
  /\ running' = 0
  /\ UNCHANGED <<serverUp, system, pay, field>>


\* ------------------------------------------- create_order, lines 308-394
\* for product in order.products: page.goto(search_url)
Goto(r) ==
  /\ CanRun(r)
  /\ req[r].pc = "goto"
  /\ \E ok \in BOOLEAN :
       LET c == [req[r] EXCEPT !.processed = @ + 1]
       IN  IF ok
           THEN /\ Put(r, [c EXCEPT !.pc = "popups1",
                                    !.navigated = Append(@, Product(r))])
                /\ pages' = Navigate(c.page, r, SearchUrl(Product(r)))
                /\ running' = 0
           ELSE /\ Put(r, Raise(c, Err("goto failed"), "product_except"))
                /\ UNCHANGED pages
                /\ running' = r
  /\ UNCHANGED <<serverUp, system, tabOpen, pay, field>>

PopupNext(pc) ==
  CASE pc = "popups1" -> "find"
    [] pc = "popups2" -> "shot_after"
    [] pc = "popups3" -> "wait_upi"
    [] pc = "popups4" -> "open_cart"
    [] pc = "popups5" -> "return_cart"

\* handle_popups: queries the page, closes what it finds, swallows every exception
handle_popups(r) ==
  /\ CanRun(r)
  /\ req[r].pc \in {"popups1", "popups2", "popups3", "popups4", "popups5"}
  /\ Put(r, [req[r] EXCEPT !.pc = PopupNext(@)])
  /\ pages' = Touch(req[r].page, r)
  /\ running' = IF req[r].pc = "popups5" THEN r ELSE 0
  /\ UNCHANGED <<serverUp, system, tabOpen, pay, field>>

\* find_add_to_cart_button, one selector per step; None after the last one
\* sends create_order to its else branch (lines 387-390)
find_add_to_cart_button(r) ==
  /\ CanRun(r)
  /\ req[r].pc = "find"
  /\ \E res \in WaitOutcomes :
       IF res = "found"
       THEN /\ Put(r, [req[r] EXCEPT !.pc = "shot_before", !.sel = 1])
            /\ running' = 0
       ELSE IF req[r].sel < NumAddSelectors
       THEN /\ Put(r, [req[r] EXCEPT !.sel = @ + 1])
            /\ running' = 0
       ELSE /\ Put(r, Raise([req[r] EXCEPT !.sel = 1,
                               !.failed_products = Append(@, Product(r))],
                            HTTPException(404, <<"Product ", Product(r),
                               " not found or Add to Cart button not visible">>),
                            "product_except"))
            /\ running' = r
  /\ pages' = Touch(req[r].page, r)
  /\ UNCHANGED <<serverUp, system, tabOpen, pay, field>>

\* a page operation that either succeeds and moves on, or raises into line 391
PageStep(r, at, next, ok, msg, done) ==
  /\ CanRun(r)
  /\ req[r].pc = at
  /\ IF ok
     THEN /\ Put(r, [done EXCEPT !.pc = next])
          /\ running' = 0
     ELSE /\ Put(r, Raise(req[r], Err(msg), "product_except"))
          /\ running' = r
  /\ pages' = Touch(req[r].page, r)
  /\ UNCHANGED <<serverUp, system, tabOpen, pay, field>>

\* line 326
ScreenshotBefore(r) ==
  \E ok \in BOOLEAN :
    PageStep(r, "shot_before", "click_add", ok, "screenshot failed", req[r])

\* lines 329-330
ClickAddToCart(r) ==
  \E ok \in BOOLEAN :
    PageStep(r, "click_add", "popups2", ok, "click failed",
             [req[r] EXCEPT !.added = Append(@, Product(r))])

\* lines 336-339
ScreenshotAfter(r) ==
  \E ok \in BOOLEAN :
    PageStep(r, "shot_after", "wait_pay", ok, "screenshot failed",
             [req[r] EXCEPT !.successful_products = Append(@, Product(r))])

\* lines 343-348: wait for the "Click to Pay" button
WaitPaymentButton(r) ==
  /\ CanRun(r)
  /\ req[r].pc = "wait_pay"
  /\ \E res \in WaitOutcomes :
       CASE res = "found" ->
              /\ Put(r, [req[r] EXCEPT !.pc = "click_pay"])
              /\ running' = 0
         [] res = "timeout" ->
              /\ Put(r, Raise(req[r], Err("TimeoutError"), "product_except"))
              /\ running' = r
         [] OTHER ->
              /\ Put(r, Raise(req[r], HTTPException(400, <<"Payment button not found">>),
                              "product_except"))
              /\ running' = r
  /\ pages' = Touch(req[r].page, r)
  /\ UNCHANGED <<serverUp, system, tabOpen, pay, field>>

\* lines 345-350
ClickPay(r) ==
  \E ok \in BOOLEAN :
    PageStep(r, "click_pay", "popups3", ok, "click failed",
             [req[r] EXCEPT !.paid = Append(@, Product(r))])

\* line 357
WaitUPI(r) ==
  \E res \in WaitOutcomes :
    PageStep(r, "wait_upi", "select_upi", res = "found", "TimeoutError", req[r])

\* lines 360-362
SelectUPI(r) ==
  \E ok \in BOOLEAN :
    PageStep(r, "select_upi", "sys_exit", ok, "click failed", req[r])

\* line 363: SystemExit is no Exception, no handler of create_order catches it;
\* it leaves the event loop and the server process ends with every request in it
\* (lines 364-386, the call of enter_upi_and_pay and the success return, never run)
SysExit(r) ==
  /\ CanRun(r)
  /\ req[r].pc = "sys_exit"
  /\ Put(r, [req[r] EXCEPT !.pc = "done", !.outcome = "exit"])
  /\ serverUp' = FALSE
  /\ running' = 0
  /\ UNCHANGED <<system, tabOpen, pages, pay, field>>

\* ProductExcept that skips the product and goes on with the next one
ProductExceptSkip(r) ==
  /\ CanRun(r)
  /\ req[r].pc = "product_except"
  /\ Put(r, [req[r] EXCEPT
               !.failed_products = Append(@, Product(r)),
               !.exc = NoExc,
               !.idx = @ + 1,
               !.pc = LoopPc(req[r].idx + 1, req[r].products)])
  /\ running' = 0
  /\ UNCHANGED <<serverUp, system, tabOpen, pages, pay, field>>

\* lines 391-394: HTTPException is an Exception, so the 404 of line 390 lands here too
ProductExcept(r) ==
  /\ CanRun(r)
  /\ req[r].pc = "product_except"
  /\ Put(r, [req[r] EXCEPT
               !.failed_products = Append(@, Product(r)),
               !.exc = HTTPException(400,
                         <<"Error adding product ", Product(r), ": ">> \o StrOf(@)),
               !.pc = "outer_except"])
  /\ running' = 0
  /\ UNCHANGED <<serverUp, system, tabOpen, pages, pay, field>>

\* ------------------------------------------- create_order, lines 396-417
\* open_cart returns False on any exception, and line 403 raises
open_cart(r) ==
  /\ CanRun(r)
  /\ req[r].pc = "open_cart"
  /\ \E ok \in BOOLEAN :
       IF ok
       THEN /\ Put(r, [req[r] EXCEPT !.pc = "popups5", !.cartOpened = TRUE])
            /\ pages' = Navigate(req[r].page, r, CartUrl(pages[req[r].page].url))
            /\ running' = 0
       ELSE /\ Put(r, Raise(req[r], HTTPException(400, <<"Failed to open cart">>),
                            "checkout_except"))
            /\ pages' = Touch(req[r].page, r)
            /\ running' = r
  /\ UNCHANGED <<serverUp, system, tabOpen, pay, field>>

\* line 410: return page, order_id, successful_products, failed_products
ReturnCart(r) ==
  /\ CanRun(r)
  /\ req[r].pc = "return_cart"
  /\ Put(r, [req[r] EXCEPT !.pc = "done", !.outcome = "tuple"])
  /\ running' = 0
  /\ UNCHANGED <<serverUp, system, tabOpen, pages, pay, field>>

\* lines 411-413
CheckoutExcept(r) ==
  /\ CanRun(r)
  /\ req[r].pc = "checkout_except"
  /\ Put(r, [req[r] EXCEPT
               !.exc = HTTPException(400, <<"Error during checkout: ">> \o StrOf(@)),
               !.pc = "outer_except"])
  /\ running' = 0
  /\ UNCHANGED <<serverUp, system, tabOpen, pages, pay, field>>

\* OuterExcept written as `except HTTPException`: anything else leaves the handler
OuterExceptOnlyHttp(r) ==
  /\ CanRun(r)
  /\ req[r].pc = "outer_except"
  /\ IF req[r].exc.kind = "http"
     THEN Put(r, Respond(req[r], HTTPException(500,
                   <<"Browser automation error: ">> \o StrOf(req[r].exc))))
     ELSE Put(r, [req[r] EXCEPT !.pc = "done", !.outcome = "uncaught"])
  /\ running' = 0
  /\ UNCHANGED <<serverUp, system, tabOpen, pages, pay, field>>

\* lines 415-417
OuterExcept(r) ==
  /\ CanRun(r)
  /\ req[r].pc = "outer_except"
  /\ Put(r, Respond(req[r], HTTPException(500,
                      <<"Browser automation error: ">> \o StrOf(req[r].exc))))
  /\ running' = 0
  /\ UNCHANGED <<serverUp, system, tabOpen, pages, pay, field>>

\* ---------------------------------------- enter_upi_and_pay, lines 194-238
ReqVars == <<req, running, serverUp, system, tabOpen, pages>>

\* lines 199-201
UpiWaitInput ==
  /\ pay.pc = "wait_input"
  /\ \E res \in WaitOutcomes :
       CASE res = "found" -> pay' = [pay EXCEPT !.pc = "click_input"]
         [] res = "timeout" -> pay' = PayRaise("TimeoutError")
         [] OTHER -> pay' = PayRaise("UPI input field not found")
  /\ UNCHANGED <<ReqVars, field>>

\* line 204
UpiClickInput ==
  /\ pay.pc = "click_input"
  /\ \E ok \in BOOLEAN :
       pay' = IF ok THEN [pay EXCEPT !.pc = "fill"] ELSE PayRaise("click failed")
  /\ UNCHANGED <<ReqVars, field>>

\* UpiFill with the fill call left out
UpiFillSkipped ==
  /\ pay.pc = "fill"
  /\ pay' = [pay EXCEPT !.pc = "find_verify", !.sel = 1, !.verify_button = FALSE]
  /\ UNCHANGED <<ReqVars, field>>

\* lines 205-219: fill replaces whatever the input held
UpiFill ==
  /\ pay.pc = "fill"
  /\ \E ok \in BOOLEAN :
       IF ok
       THEN /\ pay' = [pay EXCEPT !.pc = "find_verify", !.sel = 1,
                                  !.verify_button = FALSE, !.log = Append(@, "fill")]
            /\ field' = pay.upi_id
       ELSE /\ pay' = PayRaise("fill failed")
            /\ UNCHANGED field
  /\ UNCHANGED ReqVars

\* lines 220-227: the first selector that matches ends the loop
UpiFindVerify ==
  /\ pay.pc = "find_verify"
  /\ \E res \in WaitOutcomes :
       IF res = "found"
       THEN pay' = [pay EXCEPT !.pc = "after_loop", !.verify_button = TRUE]
       ELSE IF pay.sel < NumVerifySelectors
       THEN pay' = [pay EXCEPT !.sel = @ + 1]
       ELSE pay' = [pay EXCEPT !.pc = "after_loop"]
  /\ UNCHANGED <<ReqVars, field>>

\* lines 229-234
UpiClickVerify ==
  /\ pay.pc = "after_loop"
  /\ \E ok \in BOOLEAN :
       IF pay.verify_button
       THEN pay' = IF ok
                   THEN [pay EXCEPT !.pc = "returned", !.ret = "true",
                                    !.log = Append(@, "click_verify")]
                   ELSE PayRaise("click failed")
       ELSE pay' = PayRaise("Verify and Pay button not found")
  /\ UNCHANGED <<ReqVars, field>>

\* lines 236-238
UpiExcept ==
  /\ pay.pc = "pay_except"
  /\ pay' = [pay EXCEPT !.pc = "returned", !.ret = "false"]
  /\ UNCHANGED <<ReqVars, field>>

\* ------------------------------------------------------- specifications
Next ==
  \E r \in Requests :
    \/ BeginOrder(r)
    \/ EnsureStart(r)
    \/ EnsurePoll(r)
    \/ OrderRetry(r)
    \/ StartPlaywright(r)
    \/ Connect(r)
    \/ ConnectResume(r)
    \/ GetPage(r)
    \/ Goto(r)
    \/ handle_popups(r)
    \/ find_add_to_cart_button(r)
    \/ ScreenshotBefore(r)
    \/ ClickAddToCart(r)
    \/ ScreenshotAfter(r)
    \/ WaitPaymentButton(r)
    \/ ClickPay(r)
    \/ WaitUPI(r)
    \/ SelectUPI(r)
    \/ SysExit(r)
    \/ ProductExcept(r)
    \/ open_cart(r)
    \/ ReturnCart(r)
    \/ CheckoutExcept(r)
    \/ OuterExcept(r)

Spec == Init /\ [][Next]_vars
SpecConc == InitConc /\ [][Next]_vars

NextPay ==
  \/ UpiWaitInput
  \/ UpiClickInput
  \/ UpiFill
  \/ UpiFindVerify
  \/ UpiClickVerify
  \/ UpiExcept

SpecPay == InitPay /\ [][NextPay]_vars



\* ------------------------------------------------------------ the claims
Done(r) == req[r].pc = "done"
Posted == {r \in Requests : req[r].pc # "absent"}
\* the processing of a product has raised
ProductFailed(r) == req[r].failed /\ req[r].processed > 0
\* r has operated on its page and its next step operates on it again
MidPage(r) ==
  req[r].pc \in {"popups1", "find", "shot_before", "click_add", "popups2",
                 "shot_after", "wait_pay", "click_pay", "popups3", "wait_upi",
                 "select_upi", "open_cart", "popups5"}
IsPrefix(s, t) == Len(s) <= Len(t) /\ \A k \in 1..Len(s) : s[k] = t[k]

\* C1: every completed request ends either with the success payload or with an
\* HTTP error; no other return value, no exit of the server process.
C1_TwoOutcomes ==
  \A r \in Posted : Done(r) => req[r].outcome \in {"success", "http_error"}

\* C2: a request in which a step has failed is inside an exception handler or has
\* ended, and when it has ended it ended with an HTTP error that carries a
\* message; it never returned a payload and never left the handler uncaught.
C2_FailureIsHttpError ==
  \A r \in Posted :
    req[r].failed =>
      /\ req[r].pc \in {"product_except", "checkout_except", "outer_except", "done"}
      /\ Done(r) => /\ req[r].outcome = "http_error"
                    /\ req[r].status \in {400, 404, 500}
                    /\ req[r].detail # <<>>

C2_Witness ==
  \E r \in Posted :
    /\ Done(r) /\ req[r].failed /\ req[r].outcome = "http_error"
    /\ req[r].origin = Err("TimeoutError")

\* C3: a request in which no step failed has searched and added every product of
\* its list, in list order, and products_added equals the list.
C3_AllProductsAdded ==
  \A r \in Posted :
    (Done(r) /\ ~req[r].failed) =>
      /\ req[r].navigated = req[r].products
      /\ req[r].added = req[r].products
      /\ req[r].successful_products = req[r].products

\* C4: a connect attempt only after ensure_chrome_running returned true, a page
\* navigation only after connect_over_cdp succeeded, the pay click of a product
\* only after its add-to-cart click, open_cart only after the loop went through
\* every product.
C4_StepOrder ==
  \A r \in Posted :
    /\ req[r].connectTried => req[r].ensuredTrue
    /\ (req[r].processed > 0 \/ req[r].cartOpened) => req[r].browser
    /\ IsPrefix(req[r].paid, req[r].added)
    /\ IsPrefix(req[r].added, req[r].navigated)
    /\ req[r].cartOpened => req[r].processed = Len(req[r].products)

C4_Witness ==
  \E r \in Posted :
    /\ req[r].ensuredTrue /\ req[r].browser
    /\ Len(req[r].products) > 0
    /\ req[r].paid = <<req[r].products[1]>>

\* C5: once the processing of a product has failed, no further product is
\* searched or added, no payment and no open_cart follow, and the request can
\* only end with an HTTP error.
C5_ProductFailureFailsRequest ==
  [][\A r \in Posted :
       ProductFailed(r) =>
         /\ req'[r].navigated = req[r].navigated
         /\ req'[r].added = req[r].added
         /\ req'[r].paid = req[r].paid
         /\ req'[r].processed = req[r].processed
         /\ ~req'[r].cartOpened
         /\ req'[r].outcome \in {"pending", "http_error"}
         /\ req'[r].pc \in {"product_except", "outer_except", "done"}]_vars

C5_Witness ==
  \E r \in Posted :
    /\ ProductFailed(r) /\ Done(r) /\ req[r].outcome = "http_error"
    /\ Len(req[r].products) > 1
    /\ req[r].navigated = <<req[r].products[1]>>

C7_NoInterleaving ==
  \A r \in Posted : MidPage(r) => pages[req[r].page].by = r

\* C8: browser startup is bounded. At most 10 polls after at most one launch per
\* call of ensure_chrome_running, at most 3 calls by the startup loop; when the
\* browser was never reachable the request ends after exactly 3 calls with
\* status 500, detail "Could not ensure Chrome is running", and no connect
\* attempt; a call that finds the browser running returns true without a kill
\* or a launch.
C8_BoundedStartup ==
  \A r \in Posted :
    /\ req[r].polls <= 10 /\ req[r].launches <= 1 /\ req[r].ensureCalls <= 3
    /\ req[r].polls > 0 => req[r].launches = 1
    /\ (Done(r) /\ ~req[r].everUp) =>
         /\ req[r].ensureCalls = 3
         /\ req[r].outcome = "http_error"
         /\ req[r].status = 500
         /\ req[r].detail = <<"Could not ensure Chrome is running">>
         /\ ~req[r].connectTried
    /\ (req[r].pc = "ensure_ret" /\ req[r].alreadyRunning) =>
         /\ req[r].ensureRet
         /\ req[r].kills = 0 /\ req[r].launches = 0 /\ req[r].polls = 0

C8_Witness ==
  \E r \in Posted :
    /\ Done(r) /\ ~req[r].everUp /\ req[r].ensureCalls = 3
    /\ req[r].status = 500

\* C9: when find_add_to_cart_button returns None the client receives status 404
\* and the detail "Product <name> not found or Add to Cart button not visible".
C9_NotFoundIs404 ==
  \A r \in Posted :
    (Done(r) /\ req[r].origin.kind = "http" /\ req[r].origin.status = 404) =>
      /\ req[r].status = 404
      /\ req[r].detail = req[r].origin.detail

\* C10: successful_products and failed_products together never hold more
\* entries than products were processed, and no product is in both.
C10_BookkeepingConsistent ==
  \A r \in Posted :
    /\ Len(req[r].successful_products) + Len(req[r].failed_products)
         <= req[r].processed
    /\ ~ \E j \in 1..Len(req[r].successful_products),
            k \in 1..Len(req[r].failed_products) :
              req[r].successful_products[j] = req[r].failed_products[k]

====
